---------------------------- MODULE Spec2Model ----------------------------
(***************************************************************************)
(* Model of the autocropper (src/src/App.tsx, final revision of the file,  *)
(* lines 448-1069): name classification, bounds detection, crop+pad        *)
(* compositing, and the App component's asynchronous upload / crop /       *)
(* download handlers.                                                      *)
(*                                                                         *)
(* Strings are sequences of one-character strings, compared by UTF-16 code *)
(* unit as JavaScript does.  JavaScript numbers that can be infinite are   *)
(* records (Fin, Infinity, NegInfinity, NaN).  A Uint8ClampedArray is a    *)
(* sequence of bytes; JavaScript index i is TLA+ index i+1.                *)
(***************************************************************************)
EXTENDS Integers, Sequences, FiniteSets, TLC

(***************************************************************************)
(* Bounds of the model.                                                    *)
(***************************************************************************)
MaxWidth == 2
MaxHeight == 2
MaxPadding == 1
MaxUploads == 2
MaxCrops == 1
MaxNameTokens == 3

(***************************************************************************)
(* Characters and strings.                                                 *)
(***************************************************************************)
Ascii ==
  << " ", "!", "QUOTE", "#", "$", "%", "&", "'", "(", ")", "*", "+", ",", "-",
     ".", "/", "0", "1", "2", "3", "4", "5", "6", "7", "8", "9", ":", ";",
     "<", "=", ">", "?", "@", "A", "B", "C", "D", "E", "F", "G", "H", "I",
     "J", "K", "L", "M", "N", "O", "P", "Q", "R", "S", "T", "U", "V", "W",
     "X", "Y", "Z", "[", "BACKSLASH", "]", "^", "_", "BACKTICK", "a", "b", "c", "d", "e",
     "f", "g", "h", "i", "j", "k", "l", "m", "n", "o", "p", "q", "r", "s",
     "t", "u", "v", "w", "x", "y", "z", "{", "|", "}", "~" >>

\* The UTF-16 code unit of a character ("QUOTE" stands for the double
\* quote, code 34, "BACKSLASH" for the backslash, code 92, "BACKTICK" for code 96).
AsciiCode ==
  [c \in {Ascii[i] : i \in 1..Len(Ascii)} |->
     31 + (CHOOSE i \in 1..Len(Ascii) : Ascii[i] = c)]

CharCode(c) == AsciiCode[c]

\* String.prototype.toLowerCase on one character.
LowerChar(c) ==
  IF CharCode(c) >= 65 /\ CharCode(c) <= 90 THEN Ascii[CharCode(c) + 32 - 31]
  ELSE c

toLowerCase(s) == [i \in 1..Len(s) |-> LowerChar(s[i])]

startsWith(s, p) == Len(s) >= Len(p) /\ SubSeq(s, 1, Len(p)) = p

endsWith(s, p) ==
  Len(s) >= Len(p) /\ SubSeq(s, Len(s) - Len(p) + 1, Len(s)) = p

\* The JavaScript relation a < b on strings: lexicographic by code unit.
RECURSIVE StringLess(_, _)
StringLess(a, b) ==
  IF b = << >> THEN FALSE
  ELSE IF a = << >> THEN TRUE
  ELSE IF CharCode(Head(a)) < CharCode(Head(b)) THEN TRUE
  ELSE IF CharCode(Head(a)) > CharCode(Head(b)) THEN FALSE
  ELSE StringLess(Tail(a), Tail(b))

\* A variant with the two results swapped.
compareStringsSwapped(a, b) ==
  IF StringLess(a, b) THEN 1
  ELSE IF StringLess(b, a) THEN -1
  ELSE 0

compareStrings(a, b) ==
  IF StringLess(a, b) THEN -1
  ELSE IF StringLess(b, a) THEN 1
  ELSE 0

\* String.prototype.split on a set of one-character separators: the
\* sequence of segments, never empty.
RECURSIVE SplitFrom(_, _, _, _)
SplitFrom(s, seps, i, cur) ==
  IF i > Len(s) THEN << cur >>
  ELSE IF s[i] \in seps THEN << cur >> \o SplitFrom(s, seps, i + 1, << >>)
  ELSE SplitFrom(s, seps, i + 1, Append(cur, s[i]))

split(s, seps) == SplitFrom(s, seps, 1, << >>)

LastOf(segments) == segments[Len(segments)]

(***************************************************************************)
(* Name classification.                                                    *)
(***************************************************************************)
IMAGE_EXTENSIONS ==
  << << ".", "p", "n", "g" >>, << ".", "j", "p", "g" >>,
     << ".", "j", "p", "e", "g" >>, << ".", "s", "v", "g" >> >>

\* A variant that compares the extension as written.
isZipFileNameCaseSensitive(name) ==
  IF name = << >>
     \/ startsWith(LastOf(split(name, {"/", "BACKSLASH"})), << "." >>)
  THEN FALSE
  ELSE endsWith(name, << ".", "z", "i", "p" >>)

isZipFileName(name) ==
  LET lowerCaseName == toLowerCase(name) IN
  IF lowerCaseName = << >>
     \/ startsWith(LastOf(split(lowerCaseName, {"/", "BACKSLASH"})), << "." >>)
  THEN FALSE
  ELSE endsWith(lowerCaseName, << ".", "z", "i", "p" >>)

\* A variant that looks for the leading "." on the whole name.
isImageFileNameWholeName(name) ==
  LET lowerCaseName == toLowerCase(name) IN
  IF lowerCaseName = << >> \/ startsWith(lowerCaseName, << "." >>)
  THEN FALSE
  ELSE \E e \in 1..Len(IMAGE_EXTENSIONS) :
         endsWith(lowerCaseName, IMAGE_EXTENSIONS[e])

isImageFileName(name) ==
  LET lowerCaseName == toLowerCase(name) IN
  IF lowerCaseName = << >>
     \/ startsWith(LastOf(split(lowerCaseName, {"/", "BACKSLASH"})), << "." >>)
  THEN FALSE
  ELSE \E e \in 1..Len(IMAGE_EXTENSIONS) :
         endsWith(lowerCaseName, IMAGE_EXTENSIONS[e])

getDotlessExtension(name) == LastOf(split(toLowerCase(name), {"."}))

isDigit(c) == CharCode(c) >= 48 /\ CharCode(c) <= 57

\* A variant that takes the empty string too, as /^\d*$/ would.
isValidNonNegativeIntegerOrEmpty(s) == \A i \in 1..Len(s) : isDigit(s[i])

\* /^\d+$/.test(s)
isValidNonNegativeInteger(s) ==
  Len(s) >= 1 /\ \A i \in 1..Len(s) : isDigit(s[i])

\* The value of a string of decimal digits.
RECURSIVE DigitsValue(_)
DigitsValue(s) ==
  IF s = << >> THEN 0
  ELSE 10 * DigitsValue(SubSeq(s, 1, Len(s) - 1)) + (CharCode(s[Len(s)]) - 48)

\* Number.parseInt(s, 10): the value of the leading decimal digits of s.
\* The caller passes a string that starts with a digit.
parseInt(s) ==
  LET n == CHOOSE n \in 0..Len(s) :
             /\ \A i \in 1..n : isDigit(s[i])
             /\ (n < Len(s) => ~isDigit(s[n + 1]))
  IN DigitsValue(SubSeq(s, 1, n))

(***************************************************************************)
(* JavaScript numbers that may be infinite.                                *)
(***************************************************************************)
Fin(n) == [k |-> "fin", n |-> n]
Infinity == [k |-> "inf", n |-> 1]
NegInfinity == [k |-> "inf", n |-> -1]
NaN == [k |-> "nan", n |-> 0]

IsFinite(a) == a.k = "fin"

NumNeg(a) == IF a.k = "nan" THEN NaN ELSE [k |-> a.k, n |-> 0 - a.n]

NumAdd(a, b) ==
  IF a.k = "nan" \/ b.k = "nan" THEN NaN
  ELSE IF a.k = "fin" /\ b.k = "fin" THEN Fin(a.n + b.n)
  ELSE IF a.k = "inf" /\ b.k = "inf" THEN (IF a.n = b.n THEN a ELSE NaN)
  ELSE IF a.k = "inf" THEN a
  ELSE b

NumSub(a, b) == NumAdd(a, NumNeg(b))

Sign(n) == IF n > 0 THEN 1 ELSE IF n < 0 THEN -1 ELSE 0

NumMul(a, b) ==
  IF a.k = "nan" \/ b.k = "nan" THEN NaN
  ELSE IF a.k = "fin" /\ b.k = "fin" THEN Fin(a.n * b.n)
  ELSE IF Sign(a.n) * Sign(b.n) = 0 THEN NaN
  ELSE [k |-> "inf", n |-> Sign(a.n) * Sign(b.n)]

\* a < b
NumLess(a, b) ==
  IF a.k = "nan" \/ b.k = "nan" THEN FALSE
  ELSE IF a.k = "fin" /\ b.k = "fin" THEN a.n < b.n
  ELSE IF a.k = "inf" /\ b.k = "inf" THEN a.n < b.n
  ELSE IF a.k = "inf" THEN a.n < 0
  ELSE b.n > 0

MathMin(a, b) ==
  IF a.k = "nan" \/ b.k = "nan" THEN NaN
  ELSE IF NumLess(b, a) THEN b ELSE a

MathMax(a, b) ==
  IF a.k = "nan" \/ b.k = "nan" THEN NaN
  ELSE IF NumLess(a, b) THEN b ELSE a

(***************************************************************************)
(* Bounds detection.                                                       *)
(***************************************************************************)
\* data[i] of a typed array.
At(data, i) == data[i + 1]

\* A variant that starts the scan from the origin.
EmptyBoundsZero ==
  [minVisiblePixelX |-> Fin(0), maxVisiblePixelX |-> Fin(0),
   minVisiblePixelY |-> Fin(0), maxVisiblePixelY |-> Fin(0)]

\* The bounds getCropBounds starts from.
EmptyBounds ==
  [minVisiblePixelX |-> Infinity, maxVisiblePixelX |-> NegInfinity,
   minVisiblePixelY |-> Infinity, maxVisiblePixelY |-> NegInfinity]

\* A variant that takes a pixel as visible only from alpha 128 on.
VisitPixelThreshold(width, data, x, y, b) ==
  LET index == (y * width + x) * 4 IN
  IF At(data, index + 3) < 128 THEN b
  ELSE [minVisiblePixelX |-> MathMin(b.minVisiblePixelX, Fin(x)),
        maxVisiblePixelX |-> MathMax(b.maxVisiblePixelX, Fin(x)),
        minVisiblePixelY |-> MathMin(b.minVisiblePixelY, Fin(y)),
        maxVisiblePixelY |-> MathMax(b.maxVisiblePixelY, Fin(y))]

\* The body of the inner loop of getCropBounds at pixel (x, y).
VisitPixel(width, data, x, y, b) ==
  LET index == (y * width + x) * 4 IN
  IF At(data, index + 3) = 0 THEN b
  ELSE [minVisiblePixelX |-> MathMin(b.minVisiblePixelX, Fin(x)),
        maxVisiblePixelX |-> MathMax(b.maxVisiblePixelX, Fin(x)),
        minVisiblePixelY |-> MathMin(b.minVisiblePixelY, Fin(y)),
        maxVisiblePixelY |-> MathMax(b.maxVisiblePixelY, Fin(y))]

RECURSIVE ScanColumn(_, _, _, _, _, _)
ScanColumn(width, height, data, x, y, b) ==
  IF y < height
  THEN ScanColumn(width, height, data, x, y + 1,
                  VisitPixel(width, data, x, y, b))
  ELSE b

RECURSIVE ScanImage(_, _, _, _, _)
ScanImage(width, height, data, x, b) ==
  IF x < width
  THEN ScanImage(width, height, data, x + 1,
                 ScanColumn(width, height, data, x, 0, b))
  ELSE b

getCropBounds(imageData) ==
  ScanImage(imageData.width, imageData.height, imageData.data, 0, EmptyBounds)

(***************************************************************************)
(* Crop and pad.                                                           *)
(***************************************************************************)
\* new Uint8ClampedArray(length): ToIndex(length) throws a RangeError for
\* a negative or infinite length, and takes NaN as 0.
\* A variant that throws for a negative length only.
AllocationThrowsNegativeOnly(length) == length.k = "fin" /\ length.n < 0

AllocationThrows(length) ==
  (length.k = "inf") \/ (length.k = "fin" /\ length.n < 0)

Zeroes(length) ==
  [i \in 1..(IF length.k = "fin" THEN length.n ELSE 0) |-> 0]

\* data[i] = v on a typed array: a write outside the array is ignored.
Store(data, i, v) ==
  IF (i + 1) \in DOMAIN data THEN [data EXCEPT ![i + 1] = v] ELSE data

\* A variant that indexes the destination by the unpadded row length.
CopyPixelUnpaddedStride(imageFile, transparentPadding, paddedWidth, cropRectX, cropRectY, paddedData) ==
  LET sourceX == imageFile.cropBounds.minVisiblePixelX.n + cropRectX
      sourceY == imageFile.cropBounds.minVisiblePixelY.n + cropRectY
      sourceIndex == (sourceY * imageFile.width + sourceX) * 4
      destX == transparentPadding + cropRectX
      destY == transparentPadding + cropRectY
      destIndex ==
        (destY * (paddedWidth - 2 * transparentPadding) + destX) * 4
      d0 == Store(paddedData, destIndex, At(imageFile.data, sourceIndex))
      d1 == Store(d0, destIndex + 1, At(imageFile.data, sourceIndex + 1))
      d2 == Store(d1, destIndex + 2, At(imageFile.data, sourceIndex + 2))
  IN Store(d2, destIndex + 3, At(imageFile.data, sourceIndex + 3))

\* A variant that reads the source from its origin, not from its bounds.
CopyPixelFromOrigin(imageFile, transparentPadding, paddedWidth, cropRectX, cropRectY, paddedData) ==
  LET sourceX == cropRectX
      sourceY == cropRectY
      sourceIndex == (sourceY * imageFile.width + sourceX) * 4
      destX == transparentPadding + cropRectX
      destY == transparentPadding + cropRectY
      destIndex == (destY * paddedWidth + destX) * 4
      d0 == Store(paddedData, destIndex, At(imageFile.data, sourceIndex))
      d1 == Store(d0, destIndex + 1, At(imageFile.data, sourceIndex + 1))
      d2 == Store(d1, destIndex + 2, At(imageFile.data, sourceIndex + 2))
  IN Store(d2, destIndex + 3, At(imageFile.data, sourceIndex + 3))

\* The body of the inner loop of cropImageAndAddPadding.
CopyPixel(imageFile, transparentPadding, paddedWidth, cropRectX, cropRectY, paddedData) ==
  LET sourceX == imageFile.cropBounds.minVisiblePixelX.n + cropRectX
      sourceY == imageFile.cropBounds.minVisiblePixelY.n + cropRectY
      sourceIndex == (sourceY * imageFile.width + sourceX) * 4
      destX == transparentPadding + cropRectX
      destY == transparentPadding + cropRectY
      destIndex == (destY * paddedWidth + destX) * 4
      d0 == Store(paddedData, destIndex, At(imageFile.data, sourceIndex))
      d1 == Store(d0, destIndex + 1, At(imageFile.data, sourceIndex + 1))
      d2 == Store(d1, destIndex + 2, At(imageFile.data, sourceIndex + 2))
  IN Store(d2, destIndex + 3, At(imageFile.data, sourceIndex + 3))

RECURSIVE CopyColumn(_, _, _, _, _, _, _)
CopyColumn(imageFile, transparentPadding, paddedWidth, unpaddedHeight, cropRectX, cropRectY, paddedData) ==
  IF cropRectY < unpaddedHeight
  THEN CopyColumn(imageFile, transparentPadding, paddedWidth, unpaddedHeight,
                  cropRectX, cropRectY + 1,
                  CopyPixel(imageFile, transparentPadding, paddedWidth,
                            cropRectX, cropRectY, paddedData))
  ELSE paddedData

RECURSIVE CopyRect(_, _, _, _, _, _, _)
CopyRect(imageFile, transparentPadding, paddedWidth, unpaddedWidth, unpaddedHeight, cropRectX, paddedData) ==
  IF cropRectX < unpaddedWidth
  THEN CopyRect(imageFile, transparentPadding, paddedWidth, unpaddedWidth,
                unpaddedHeight, cropRectX + 1,
                CopyColumn(imageFile, transparentPadding, paddedWidth,
                           unpaddedHeight, cropRectX, 0, paddedData))
  ELSE paddedData

\* A variant whose result carries the bounds of the source image.
cropImageAndAddPaddingKeepsBounds(imageFile, transparentPadding) ==
  LET b == imageFile.cropBounds
      unpaddedWidth ==
        NumAdd(NumSub(b.maxVisiblePixelX, b.minVisiblePixelX), Fin(1))
      unpaddedHeight ==
        NumAdd(NumSub(b.maxVisiblePixelY, b.minVisiblePixelY), Fin(1))
      paddedWidth == NumAdd(unpaddedWidth, Fin(2 * transparentPadding))
      paddedHeight == NumAdd(unpaddedHeight, Fin(2 * transparentPadding))
      length == NumMul(NumMul(paddedWidth, paddedHeight), Fin(4))
  IN
  IF AllocationThrows(length)
  THEN [threw |-> TRUE, error |-> "RangeError"]
  ELSE [threw |-> FALSE,
        file |->
          [name |-> imageFile.name,
           width |-> paddedWidth.n,
           height |-> paddedHeight.n,
           data |-> CopyRect(imageFile, transparentPadding, paddedWidth.n,
                             unpaddedWidth.n, unpaddedHeight.n, 0,
                             Zeroes(length)),
           cropBounds |-> b]]

\* The synchronous part of cropImageAndAddPadding, up to the returned
\* promise: either the allocation throws, or the image the promise will
\* resolve to once canvas.toBlob calls back with a blob.  The cropBounds of
\* an ImageFile are all finite or all infinite (getCropBounds, or the
\* bounds stored by a crop), so past the allocation they are finite.  The
\* url field of an ImageFile (an opaque blob URL) is left out.
cropImageAndAddPadding(imageFile, transparentPadding) ==
  LET b == imageFile.cropBounds
      unpaddedWidth ==
        NumAdd(NumSub(b.maxVisiblePixelX, b.minVisiblePixelX), Fin(1))
      unpaddedHeight ==
        NumAdd(NumSub(b.maxVisiblePixelY, b.minVisiblePixelY), Fin(1))
      paddedWidth == NumAdd(unpaddedWidth, Fin(2 * transparentPadding))
      paddedHeight == NumAdd(unpaddedHeight, Fin(2 * transparentPadding))
      length == NumMul(NumMul(paddedWidth, paddedHeight), Fin(4))
  IN
  IF AllocationThrows(length)
  THEN [threw |-> TRUE, error |-> "RangeError"]
  ELSE [threw |-> FALSE,
        file |->
          [name |-> imageFile.name,
           width |-> paddedWidth.n,
           height |-> paddedHeight.n,
           data |-> CopyRect(imageFile, transparentPadding, paddedWidth.n,
                             unpaddedWidth.n, unpaddedHeight.n, 0,
                             Zeroes(length)),
           cropBounds |->
             [minVisiblePixelX |-> Fin(transparentPadding),
              maxVisiblePixelX |->
                NumSub(NumAdd(Fin(transparentPadding), unpaddedWidth), Fin(1)),
              minVisiblePixelY |-> Fin(transparentPadding),
              maxVisiblePixelY |->
                NumSub(NumAdd(Fin(transparentPadding), unpaddedHeight),
                       Fin(1))]]]


\* A variant that leaves out the images whose crop fails.
cropImagesAndAddPaddingSkipping(files, transparentPadding) ==
  LET Made(f) == ~cropImageAndAddPadding(f, transparentPadding).threw
      kept == SelectSeq(files, Made)
  IN [threw |-> FALSE,
      files |-> [i \in 1..Len(kept) |->
                   cropImageAndAddPadding(kept[i], transparentPadding).file]]

\* cropImagesAndAddPadding up to the returned promise: files.map runs every
\* crop synchronously, so the first allocation that throws ends the call
\* with that exception and no promise exists.
cropImagesAndAddPadding(files, transparentPadding) ==
  LET each == [i \in 1..Len(files) |->
                 cropImageAndAddPadding(files[i], transparentPadding)]
  IN IF \E i \in 1..Len(files) : each[i].threw
     THEN [threw |-> TRUE, error |-> "RangeError"]
     ELSE [threw |-> FALSE, files |-> [i \in 1..Len(files) |-> each[i].file]]

(***************************************************************************)
(* The files a user can pick, and what the external collaborators (the     *)
(* archive reader and the image decoder) make of them.                     *)
(***************************************************************************)
PixelTransparent == << 0, 0, 0, 0 >>
PixelFaint == << 10, 20, 30, 1 >>
PixelOpaque == << 200, 100, 50, 255 >>
PixelKinds == {PixelTransparent, PixelFaint, PixelOpaque}

\* The row-major RGBA buffer of a sequence of pixels.
Buffer(pixels) ==
  [i \in 1..(4 * Len(pixels)) |-> pixels[((i - 1) \div 4) + 1][((i - 1) % 4) + 1]]

\* What the browser decodes an entry's bytes to, when it can decode them.
Decoded(content) ==
  CASE content = "L" ->
         [width |-> 2, height |-> 1,
          data |-> Buffer(<< PixelTransparent, PixelOpaque >>)]
    [] content = "F" ->
         [width |-> 1, height |-> 1, data |-> Buffer(<< PixelFaint >>)]
    [] content = "T" ->
         [width |-> 1, height |-> 1, data |-> Buffer(<< PixelTransparent >>)]

NameBZip == << "b", ".", "z", "i", "p" >>
NameTZip == << "T", ".", "Z", "I", "P" >>
NameHiddenZip == << ".", "h", ".", "z", "i", "p" >>
NamePhoto == << "p", ".", "p", "n", "g" >>

Files == {NameBZip, NameTZip, NameHiddenZip, NamePhoto}

Entry(name, dir, content) == [name |-> name, dir |-> dir, content |-> content]

\* The entries of each archive, as a set: the archive reader enumerates
\* them in an order of its own.
ArchiveEntries(file) ==
  CASE file = NameBZip ->
         { Entry(<< "b", ".", "p", "n", "g" >>, FALSE, "L"),
           Entry(<< "A", ".", "P", "N", "G" >>, FALSE, "F"),
           Entry(<< "d", "/" >>, TRUE, "dir"),
           Entry(<< "d", "/", ".", "h", ".", "p", "n", "g" >>, FALSE, "F") }
    [] file = NameTZip ->
         { Entry(<< "t", ".", "p", "n", "g" >>, FALSE, "T"),
           Entry(<< "c", ".", "j", "p", "g" >>, FALSE, "F"),
           Entry(<< "r", ".", "t", "x", "t" >>, FALSE, "text") }
    [] OTHER -> {}

Orders(S) ==
  {o \in [1..Cardinality(S) -> S] :
     \A i, j \in 1..Cardinality(S) : i # j => o[i] # o[j]}

\* getImageEntries over one enumeration order of the archive.
getImageEntries(zip) ==
  LET Keep(zipEntry) == ~zipEntry.dir /\ isImageFileName(zipEntry.name)
  IN SelectSeq(zip, Keep)

\* The results of getImageEntries over every enumeration order.
ImageEntryOrders ==
  [file \in Files |-> {getImageEntries(o) : o \in Orders(ArchiveEntries(file))}]

\* The check at the head of loadImageFile, which throws on a name whose
\* extension is no image extension.
loadImageFileThrows(zipEntry) ==
  ~isImageFileName(<< "t", "e", "s", "t", "." >>
                     \o getDotlessExtension(zipEntry.name))

\* The ImageFile a decode promise resolves with.
loadImageFile(zipEntry) ==
  LET imageData == Decoded(zipEntry.content) IN
  [name |-> zipEntry.name,
   width |-> imageData.width,
   height |-> imageData.height,
   data |-> imageData.data,
   cropBounds |-> getCropBounds(imageData)]

\* Array.prototype.sort with the comparator of onZipFileUpload.
RECURSIVE sortByName(_)
sortByName(files) ==
  IF files = << >> THEN << >>
  ELSE LET rest == sortByName(SubSeq(files, 1, Len(files) - 1))
           f == files[Len(files)]
           k == Cardinality({i \in 1..Len(rest) :
                               compareStrings(rest[i].name, f.name) <= 0})
       IN SubSeq(rest, 1, k) \o << f >> \o SubSeq(rest, k + 1, Len(rest))

(***************************************************************************)
(* Output packaging.                                                       *)
(***************************************************************************)
\* The index of the last "." of name, 0 if there is none.
LastDot(name) ==
  IF \E i \in 1..Len(name) : name[i] = "."
  THEN CHOOSE i \in 1..Len(name) :
         name[i] = "." /\ \A j \in (i + 1)..Len(name) : name[j] # "."
  ELSE 0

\* uploadedFileName.replace(/\.[^.]+$/, ".cropped." + dotlessExtension)
replaceExtension(name, dotlessExtension) ==
  IF LastDot(name) = 0 \/ LastDot(name) = Len(name) THEN name
  ELSE SubSeq(name, 1, LastDot(name) - 1)
         \o << ".", "c", "r", "o", "p", "p", "e", "d", "." >>
         \o dotlessExtension

\* uploadedFileName.replace(/\.[zZ][iI][pP]$/, ".cropped.zip")
replaceZip(name) ==
  IF Len(name) >= 4
     /\ name[Len(name) - 3] = "."
     /\ name[Len(name) - 2] \in {"z", "Z"}
     /\ name[Len(name) - 1] \in {"i", "I"}
     /\ name[Len(name)] \in {"p", "P"}
  THEN SubSeq(name, 1, Len(name) - 4)
         \o << ".", "c", "r", "o", "p", "p", "e", "d", ".", "z", "i", "p" >>
  ELSE name

\* zip.file(name, buffer): an archive keeps one entry per name.
zipFile(zip, name) ==
  IF \E i \in 1..Len(zip) : zip[i] = name THEN zip ELSE Append(zip, name)

RECURSIVE zipImageFiles(_)
zipImageFiles(files) ==
  IF files = << >> THEN << >>
  ELSE zipFile(zipImageFiles(SubSeq(files, 1, Len(files) - 1)),
               files[Len(files)].name)

\* What onDownloadButtonClick hands to the browser: the artifact's kind, its
\* suggested file name (a.download) and the names of the images in it.  Both
\* are fixed by the state read when the button is clicked.
packageOutput(fileName, cropped) ==
  IF isImageFileName(fileName)
  THEN [kind |-> "image",
        name |-> replaceExtension(fileName, toLowerCase(getDotlessExtension(fileName))),
        entries |-> << cropped[1].name >>]
  ELSE [kind |-> "zip",
        name |-> replaceZip(fileName),
        entries |-> zipImageFiles(cropped)]

(***************************************************************************)
(* The App component.                                                      *)
(*                                                                         *)
(* uploadedFileName, originalImageFiles, transparentPaddingInputValue and  *)
(* croppedImageFiles are this.state (the two preview check boxes are left  *)
(* out: nothing reads them but render).  uploads and crops are the promise *)
(* chains in flight.  lastOutput is what the latest step showed the user:  *)
(* the file now named by the file input, the alert, an uncaught exception, *)
(* an unhandled rejection, or the artifact handed to the browser for       *)
(* download.  The newest upload is the archive upload started last:        *)
(* newestFile is its file, its promise chain is marked newest,             *)
(* newestApplied says that its setState has run, and croppedOf records the *)
(* batch and padding croppedImageFiles was computed from, and which of its *)
(* crops was the last to complete.  pc, pImageData,                        *)
(* pPadding, pBounds and pResult are the harness that applies              *)
(* getCropBounds and cropImageAndAddPadding to arbitrary small images;     *)
(* pRebounds, pRecrop and pRecropAgain hold getCropBounds of the cropped   *)
(* image and two further crops of it with padding 0.  pName and pClass are *)
(* the harness that applies the name functions to arbitrary short names.   *)
(***************************************************************************)
VARIABLES uploadedFileName, originalImageFiles, transparentPaddingInputValue,
          croppedImageFiles, uploads, crops, lastOutput,
          newestFile, newestApplied, croppedOf,
          pc, pImageData, pPadding, pBounds, pResult,
          pRebounds, pRecrop, pRecropAgain, pName, pClass

appState == << uploadedFileName, originalImageFiles,
               transparentPaddingInputValue, croppedImageFiles >>
history == << newestFile, newestApplied, croppedOf >>
session == << appState, uploads, crops, lastOutput, history >>
harness == << pc, pImageData, pPadding, pBounds, pResult,
              pRebounds, pRecrop, pRecropAgain, pName, pClass >>
vars == << session, harness >>

NoCrop == [padding |-> 0, source |-> << >>, lastDone |-> 0]
NoImageData == [width |-> 0, height |-> 0, data |-> << >>]
NoResult == [threw |-> FALSE, file |-> FALSE]
NoClass == [classified |-> FALSE]

NoOutput == [kind |-> "none", name |-> << >>, entries |-> << >>]
AlertOutput == [kind |-> "alert", name |-> << >>, entries |-> << >>]
ExceptionOutput == [kind |-> "exception", name |-> << >>, entries |-> << >>]
RejectionOutput == [kind |-> "rejection", name |-> << >>, entries |-> << >>]
ChosenOutput(file) == [kind |-> "chosen", name |-> file, entries |-> << >>]

\* The texts the padding input is given.
PaddingTexts ==
  { << >>, << "0" >>, << "1" >>, << "x" >>, << "1", "x" >> }

RemoveAt(s, i) == SubSeq(s, 1, i - 1) \o SubSeq(s, i + 1, Len(s))

SessionInit ==
  /\ uploadedFileName = << >>
  /\ originalImageFiles = << >>
  /\ transparentPaddingInputValue = << "0" >>
  /\ croppedImageFiles = << >>
  /\ uploads = << >>
  /\ crops = << >>
  /\ lastOutput = NoOutput
  /\ newestFile = << >>
  /\ newestApplied = FALSE
  /\ croppedOf = NoCrop

HarnessIdle ==
  /\ pc = "idle"
  /\ pImageData = NoImageData
  /\ pPadding = 0
  /\ pBounds = EmptyBounds
  /\ pResult = NoResult
  /\ pRebounds = EmptyBounds
  /\ pRecrop = NoResult
  /\ pRecropAgain = NoResult
  /\ pName = << >>
  /\ pClass = NoClass

Init == SessionInit /\ HarnessIdle

(***************************************************************************)
(* render: which controls exist.                                           *)
(***************************************************************************)
FileInputRendered == Len(originalImageFiles) = 0

CropButtonEnabled ==
  /\ Len(croppedImageFiles) = 0
  /\ Len(originalImageFiles) > 0
  /\ isValidNonNegativeInteger(transparentPaddingInputValue)

DownloadButtonEnabled == Len(croppedImageFiles) # 0

(***************************************************************************)
(* onFileInputChange.                                                      *)
(***************************************************************************)
\* The dialog was dismissed: files is empty.
NoFileChosen ==
  /\ FileInputRendered
  /\ lastOutput' = NoOutput
  /\ UNCHANGED << appState, uploads, crops, history, harness >>

\* The promise chains of earlier uploads are no longer the newest.
Older(s) == [i \in 1..Len(s) |-> [s[i] EXCEPT !.newest = FALSE]]

onZipFileUpload(file) ==
  /\ Len(uploads) < MaxUploads
  /\ uploads' = Append(Older(uploads),
                       [newest |-> TRUE, file |-> file, stage |-> "loading",
                        entries |-> << >>, done |-> {}])
  /\ newestFile' = file
  /\ newestApplied' = FALSE
  /\ lastOutput' = ChosenOutput(file)
  /\ UNCHANGED << appState, crops, croppedOf >>

\* // TODO
onImageFileUpload(file) ==
  /\ lastOutput' = ChosenOutput(file)
  /\ UNCHANGED << appState, uploads, crops, history >>

\* window.alert("Invalid file type.")
InvalidFileType(file) ==
  /\ lastOutput' = AlertOutput
  /\ UNCHANGED << appState, uploads, crops, history >>

ZipFileChosen ==
  \E file \in Files :
    /\ FileInputRendered
    /\ isZipFileName(file)
    /\ onZipFileUpload(file)
    /\ UNCHANGED harness

ImageFileChosen ==
  \E file \in Files :
    /\ FileInputRendered
    /\ ~isZipFileName(file)
    /\ isImageFileName(file)
    /\ onImageFileUpload(file)
    /\ UNCHANGED harness

OtherFileChosen ==
  \E file \in Files :
    /\ FileInputRendered
    /\ ~isZipFileName(file)
    /\ ~isImageFileName(file)
    /\ InvalidFileType(file)
    /\ UNCHANGED harness

(***************************************************************************)
(* The promise chain of onZipFileUpload.                                   *)
(***************************************************************************)
\* The last callback of the chain: sort and setState.
ApplyUpload(task, unsortedImageFiles) ==
  /\ uploadedFileName' = task.file
  /\ originalImageFiles' = sortByName(unsortedImageFiles)
  /\ croppedImageFiles' = << >>
  /\ newestApplied' = (newestApplied \/ task.newest)
  /\ croppedOf' = NoCrop
  /\ UNCHANGED << transparentPaddingInputValue, newestFile >>

\* JSZip.loadAsync resolves; getImageEntries and the map over loadImageFile
\* run in the callbacks that follow it.
ZipLoaded ==
  \E i \in 1..Len(uploads) :
    \E imageEntries \in ImageEntryOrders[uploads[i].file] :
      /\ uploads[i].stage = "loading"
      /\ IF \E k \in 1..Len(imageEntries) : loadImageFileThrows(imageEntries[k])
         THEN /\ uploads' = RemoveAt(uploads, i)
              /\ lastOutput' = RejectionOutput
              /\ UNCHANGED << appState, history >>
         ELSE IF imageEntries = << >>
         THEN /\ uploads' = RemoveAt(uploads, i)
              /\ ApplyUpload(uploads[i], << >>)
              /\ lastOutput' = NoOutput
         ELSE /\ uploads' = [uploads EXCEPT ![i].stage = "decoding",
                                            ![i].entries = imageEntries]
              /\ lastOutput' = NoOutput
              /\ UNCHANGED << appState, history >>
      /\ UNCHANGED << crops, harness >>

\* One loadImageFile promise resolves; when it is the last one, Promise.all
\* resolves with the images in the order of the entries.
DecodeResolved ==
  \E i \in 1..Len(uploads) :
    \E k \in 1..Len(uploads[i].entries) :
      /\ uploads[i].stage = "decoding"
      /\ k \notin uploads[i].done
      /\ IF uploads[i].done \cup {k} = 1..Len(uploads[i].entries)
         THEN /\ uploads' = RemoveAt(uploads, i)
              /\ ApplyUpload(uploads[i],
                             [n \in 1..Len(uploads[i].entries) |->
                                loadImageFile(uploads[i].entries[n])])
         ELSE /\ uploads' = [uploads EXCEPT ![i].done = @ \cup {k}]
              /\ UNCHANGED << appState, history >>
      /\ lastOutput' = NoOutput
      /\ UNCHANGED << crops, harness >>

\* A variant whose failure resets the session.
DecodeRejectedResets ==
  \E i \in 1..Len(uploads) :
    \E k \in 1..Len(uploads[i].entries) :
      /\ uploads[i].stage = "decoding"
      /\ k \notin uploads[i].done
      /\ uploads' = RemoveAt(uploads, i)
      /\ lastOutput' = RejectionOutput
      /\ uploadedFileName' = << >>
      /\ originalImageFiles' = << >>
      /\ croppedImageFiles' = << >>
      /\ UNCHANGED << transparentPaddingInputValue, crops, history,
                      harness >>

\* The entry's bytes do not decode: the image's error event rejects one
\* loadImageFile promise, and with it Promise.all, and the chain's last
\* callback never runs.  Whether an entry's bytes decode is the archive's
\* content, which the upload leaves open until the decode.
DecodeRejected ==
  \E i \in 1..Len(uploads) :
    \E k \in 1..Len(uploads[i].entries) :
      /\ uploads[i].stage = "decoding"
      /\ k \notin uploads[i].done
      /\ uploads' = RemoveAt(uploads, i)
      /\ lastOutput' = RejectionOutput
      /\ UNCHANGED << appState, crops, history, harness >>

(***************************************************************************)
(* The padding input, the crop button and the download button.             *)
(***************************************************************************)
\* A change event carries a text that differs from the one shown.
onTransparentPaddingInputValueChange ==
  \E value \in PaddingTexts :
    /\ value # transparentPaddingInputValue
    /\ transparentPaddingInputValue' = value
    /\ croppedImageFiles' = << >>
    /\ croppedOf' = NoCrop
    /\ lastOutput' = NoOutput
    /\ UNCHANGED << uploadedFileName, originalImageFiles, uploads, crops,
                    newestFile, newestApplied, harness >>

\* The guard at the head of onCropButtonClick.
CropGuard ==
  /\ Len(originalImageFiles) > 0
  /\ isValidNonNegativeInteger(transparentPaddingInputValue)

onCropButtonClick ==
  /\ CropButtonEnabled
  /\ Len(crops) < MaxCrops
  /\ IF ~CropGuard
     THEN UNCHANGED << crops, lastOutput >>
     ELSE LET transparentPadding == parseInt(transparentPaddingInputValue)
              started == cropImagesAndAddPadding(originalImageFiles,
                                                 transparentPadding)
          IN IF started.threw
             THEN /\ lastOutput' = ExceptionOutput
                  /\ UNCHANGED crops
             ELSE /\ crops' = Append(crops,
                                     [padding |-> transparentPadding,
                                      source |-> originalImageFiles,
                                      done |-> {}])
                  /\ lastOutput' = NoOutput
  /\ UNCHANGED << appState, uploads, history, harness >>

\* A variant whose Promise.all delivers the images in the order their
\* promises resolved: the crop that completed last comes last.
CropResolvedByCompletion ==
  \E i \in 1..Len(crops) :
    \E k \in 1..Len(crops[i].source) :
      /\ k \notin crops[i].done
      /\ IF crops[i].done \cup {k} = 1..Len(crops[i].source)
         THEN /\ crops' = RemoveAt(crops, i)
              /\ croppedImageFiles' =
                   LET all == cropImagesAndAddPadding(crops[i].source,
                                                      crops[i].padding).files
                   IN RemoveAt(all, k) \o << all[k] >>
              /\ croppedOf' = [padding |-> crops[i].padding,
                               source |-> crops[i].source,
                               lastDone |-> k]
         ELSE /\ crops' = [crops EXCEPT ![i].done = @ \cup {k}]
              /\ UNCHANGED << croppedImageFiles, croppedOf >>
      /\ lastOutput' = NoOutput
      /\ UNCHANGED << uploadedFileName, originalImageFiles,
                      transparentPaddingInputValue, uploads, newestFile,
                      newestApplied, harness >>

\* canvas.toBlob calls back with a blob: one crop promise resolves; when it
\* is the last one, Promise.all resolves with the images computed when the
\* button was clicked, and croppedImageFiles is set.
CropResolved ==
  \E i \in 1..Len(crops) :
    \E k \in 1..Len(crops[i].source) :
      /\ k \notin crops[i].done
      /\ IF crops[i].done \cup {k} = 1..Len(crops[i].source)
         THEN /\ crops' = RemoveAt(crops, i)
              /\ croppedImageFiles' =
                   cropImagesAndAddPadding(crops[i].source,
                                           crops[i].padding).files
              /\ croppedOf' = [padding |-> crops[i].padding,
                               source |-> crops[i].source,
                               lastDone |-> k]
         ELSE /\ crops' = [crops EXCEPT ![i].done = @ \cup {k}]
              /\ UNCHANGED << croppedImageFiles, croppedOf >>
      /\ lastOutput' = NoOutput
      /\ UNCHANGED << uploadedFileName, originalImageFiles,
                      transparentPaddingInputValue, uploads, newestFile,
                      newestApplied, harness >>

\* canvas.toBlob calls back with null: the crop promise rejects, and with it
\* Promise.all.
CropRejected ==
  \E i \in 1..Len(crops) :
    \E k \in 1..Len(crops[i].source) :
      /\ k \notin crops[i].done
      /\ crops' = RemoveAt(crops, i)
      /\ lastOutput' = RejectionOutput
      /\ UNCHANGED << appState, uploads, history, harness >>

onDownloadButtonClick ==
  /\ DownloadButtonEnabled
  /\ IF Len(croppedImageFiles) = 0
     THEN UNCHANGED lastOutput
     ELSE lastOutput' = packageOutput(uploadedFileName, croppedImageFiles)
  /\ UNCHANGED << appState, uploads, crops, history, harness >>

Next ==
  \/ NoFileChosen
  \/ ZipFileChosen
  \/ ImageFileChosen
  \/ OtherFileChosen
  \/ ZipLoaded
  \/ DecodeResolved
  \/ DecodeRejected
  \/ onTransparentPaddingInputValueChange
  \/ onCropButtonClick
  \/ CropResolved
  \/ CropRejected
  \/ onDownloadButtonClick

Spec == Init /\ [][Next]_vars

(***************************************************************************)
(* The harness: getCropBounds and cropImageAndAddPadding on every image of *)
(* at most MaxWidth x MaxHeight pixels and every padding up to MaxPadding. *)
(***************************************************************************)
ImageDatas ==
  UNION {
    {[width |-> w, height |-> h, data |-> Buffer(pixels)] :
       pixels \in [1..(w * h) -> PixelKinds]} :
    w \in 0..MaxWidth, h \in 0..MaxHeight}

HarnessInit ==
  /\ SessionInit
  /\ pc = "decoded"
  /\ pImageData \in ImageDatas
  /\ pPadding \in 0..MaxPadding
  /\ pBounds = EmptyBounds
  /\ pResult = NoResult
  /\ pRebounds = EmptyBounds
  /\ pRecrop = NoResult
  /\ pRecropAgain = NoResult
  /\ pName = << >>
  /\ pClass = NoClass

\* The image as loadImageFile stores it.
HarnessFile ==
  [name |-> NamePhoto, width |-> pImageData.width,
   height |-> pImageData.height, data |-> pImageData.data,
   cropBounds |-> pBounds]

Detect ==
  /\ pc = "decoded"
  /\ pBounds' = getCropBounds(pImageData)
  /\ pc' = "detected"
  /\ UNCHANGED << session, pImageData, pPadding, pResult,
                  pRebounds, pRecrop, pRecropAgain, pName, pClass >>

Compose ==
  /\ pc = "detected"
  /\ pResult' = cropImageAndAddPadding(HarnessFile, pPadding)
  /\ pc' = "composed"
  /\ UNCHANGED << session, pImageData, pPadding, pBounds,
                  pRebounds, pRecrop, pRecropAgain, pName, pClass >>

\* getCropBounds on the pixel buffer of the cropped image.
Redetect ==
  /\ pc = "composed"
  /\ ~pResult.threw
  /\ pRebounds' = getCropBounds([width |-> pResult.file.width,
                                 height |-> pResult.file.height,
                                 data |-> pResult.file.data])
  /\ pc' = "redetected"
  /\ UNCHANGED << session, pImageData, pPadding, pBounds, pResult,
                  pRecrop, pRecropAgain, pName, pClass >>

\* The cropped image, cropped again with padding 0.
Recrop ==
  /\ pc = "redetected"
  /\ pRecrop' = cropImageAndAddPadding(pResult.file, 0)
  /\ pc' = "recropped"
  /\ UNCHANGED << session, pImageData, pPadding, pBounds, pResult,
                  pRebounds, pRecropAgain, pName, pClass >>

\* And once more.
RecropAgain ==
  /\ pc = "recropped"
  /\ ~pRecrop.threw
  /\ pRecropAgain' = cropImageAndAddPadding(pRecrop.file, 0)
  /\ pc' = "recroppedAgain"
  /\ UNCHANGED << session, pImageData, pPadding, pBounds, pResult,
                  pRebounds, pRecrop, pName, pClass >>

HarnessNext == Detect \/ Compose \/ Redetect \/ Recrop \/ RecropAgain

HarnessSpec == HarnessInit /\ [][HarnessNext]_vars

(***************************************************************************)
(* The name harness: isZipFileName, isImageFileName and getDotlessExtension *)
(* on every name made of at most MaxNameTokens pieces, and on a few longer  *)
(* names.                                                                   *)
(***************************************************************************)
NameTokens ==
  { << "a" >>, << "." >>, << "/" >>, << "BACKSLASH" >>,
    << "z", "i", "p" >>, << "p", "n", "g" >>,
    << ".", "z", "i", "p" >>, << ".", "Z", "i", "P" >>,
    << ".", "p", "n", "g" >>, << ".", "P", "N", "G" >>,
    << ".", "j", "p", "g" >>, << ".", "J", "p", "e", "g" >>,
    << ".", "s", "v", "g" >> }

RECURSIVE JoinTokens(_)
JoinTokens(tokens) ==
  IF tokens = << >> THEN << >>
  ELSE tokens[1] \o JoinTokens(Tail(tokens))

NameHidden == << ".", "h", "i", "d", "d", "e", "n", ".", "z", "i", "p" >>
NameFolderHidden == << "f", "o", "l", "d", "e", "r", "/" >> \o NameHidden
NameUpperZip == << "a", ".", "Z", "I", "P" >>
NameTwoDots == << "a", ".", "b", ".", "P", "N", "G" >>
NameNoExt == << "n", "o", "e", "x", "t" >>

Names ==
  UNION {{JoinTokens(t) : t \in [1..n -> NameTokens]} : n \in 0..MaxNameTokens}
    \cup {NameHidden, NameFolderHidden, NameUpperZip, NameTwoDots, NameNoExt}

NamesInit ==
  /\ SessionInit
  /\ pc = "idle"
  /\ pImageData = NoImageData
  /\ pPadding = 0
  /\ pBounds = EmptyBounds
  /\ pResult = NoResult
  /\ pRebounds = EmptyBounds
  /\ pRecrop = NoResult
  /\ pRecropAgain = NoResult
  /\ pName \in Names
  /\ pClass = NoClass

Classify ==
  /\ ~pClass.classified
  /\ pClass' = [classified |-> TRUE,
                zip |-> isZipFileName(pName),
                image |-> isImageFileName(pName),
                extension |-> getDotlessExtension(pName)]
  /\ UNCHANGED << session, pc, pImageData, pPadding, pBounds, pResult,
                  pRebounds, pRecrop, pRecropAgain, pName >>

NamesNext == Classify

NamesSpec == NamesInit /\ [][NamesNext]_vars

(***************************************************************************)
(* Properties of getCropBounds and cropImageAndAddPadding (HarnessSpec).   *)
(***************************************************************************)
\* The alpha channel of the harness image at (x, y).
HarnessAlpha(x, y) == pImageData.data[(y * pImageData.width + x) * 4 + 4]

\* The pixels of the harness image whose alpha is not zero.
HarnessVisible ==
  {p \in (0..(pImageData.width - 1)) \X (0..(pImageData.height - 1)) :
     HarnessAlpha(p[1], p[2]) # 0}

\* C1: for an image with a pixel of non-zero alpha, getCropBounds returns
\* finite bounds inside the image, every pixel of non-zero alpha lies in the
\* rectangle, and each of its four sides holds such a pixel.
C1_BoundsContainAndTight ==
  (pc \notin {"idle", "decoded"} /\ HarnessVisible # {}) =>
    /\ IsFinite(pBounds.minVisiblePixelX) /\ IsFinite(pBounds.maxVisiblePixelX)
    /\ IsFinite(pBounds.minVisiblePixelY) /\ IsFinite(pBounds.maxVisiblePixelY)
    /\ LET minX == pBounds.minVisiblePixelX.n
           maxX == pBounds.maxVisiblePixelX.n
           minY == pBounds.minVisiblePixelY.n
           maxY == pBounds.maxVisiblePixelY.n
       IN /\ 0 <= minX /\ minX <= maxX /\ maxX <= pImageData.width - 1
          /\ 0 <= minY /\ minY <= maxY /\ maxY <= pImageData.height - 1
          /\ \A p \in HarnessVisible :
               /\ minX <= p[1] /\ p[1] <= maxX
               /\ minY <= p[2] /\ p[2] <= maxY
          /\ \E p \in HarnessVisible : p[1] = minX
          /\ \E p \in HarnessVisible : p[1] = maxX
          /\ \E p \in HarnessVisible : p[2] = minY
          /\ \E p \in HarnessVisible : p[2] = maxY

\* Bounds were detected on an image whose only visible pixels have alpha 1
\* and whose bounds leave out its first column.
C1_Witness ==
  /\ pc = "detected"
  /\ HarnessVisible # {}
  /\ \A p \in HarnessVisible : HarnessAlpha(p[1], p[2]) = 1
  /\ pBounds.minVisiblePixelX = Fin(1)

\* C2: for an image with a visible pixel, its detected bounds and a padding,
\* cropImageAndAddPadding returns an image of the bounded size plus twice the
\* padding each way, whose pixel at (padding+i, padding+j) has the four
\* channels of the source pixel at (minX+i, minY+j), and whose other pixels
\* are all zero.
C2_ComposeExact ==
  (pc \notin {"idle", "decoded", "detected"} /\ HarnessVisible # {}) =>
    /\ ~pResult.threw
    /\ LET out == pResult.file
           minX == pBounds.minVisiblePixelX.n
           minY == pBounds.minVisiblePixelY.n
           w == pBounds.maxVisiblePixelX.n - minX + 1
           h == pBounds.maxVisiblePixelY.n - minY + 1
       IN /\ out.width = w + 2 * pPadding
          /\ out.height = h + 2 * pPadding
          /\ Len(out.data) = out.width * out.height * 4
          /\ \A X \in 0..(out.width - 1), Y \in 0..(out.height - 1),
                c \in 1..4 :
               out.data[(Y * out.width + X) * 4 + c] =
                 IF /\ pPadding <= X /\ X < pPadding + w
                    /\ pPadding <= Y /\ Y < pPadding + h
                 THEN pImageData.data[((minY + Y - pPadding) * pImageData.width
                                       + (minX + X - pPadding)) * 4 + c]
                 ELSE 0

\* A padded crop was made of an image whose bounds leave out its first
\* column and first row.
C2_Witness ==
  /\ pc = "composed"
  /\ pPadding >= 1
  /\ HarnessVisible # {}
  /\ pBounds.minVisiblePixelX = Fin(1)
  /\ pBounds.minVisiblePixelY = Fin(1)
  /\ ~pResult.threw

\* C4: cropImageAndAddPadding on an image with no visible pixel, whose
\* bounds are the empty interval, fails and yields no image.
C4_EmptyBoundsFail ==
  (pc = "composed" /\ HarnessVisible = {}) =>
    /\ pBounds = EmptyBounds
    /\ pResult.threw
    /\ DOMAIN pResult = {"threw", "error"}

\* A padded crop was asked of a fully transparent image of some size.
C4_Witness ==
  /\ pc = "composed"
  /\ HarnessVisible = {}
  /\ pImageData.width >= 1 /\ pImageData.height >= 1
  /\ pPadding >= 1
  /\ pResult.threw

\* The padding-relative rectangle of the harness image's detected bounds.
HarnessPaddedBounds ==
  LET w == pBounds.maxVisiblePixelX.n - pBounds.minVisiblePixelX.n + 1
      h == pBounds.maxVisiblePixelY.n - pBounds.minVisiblePixelY.n + 1
  IN [minVisiblePixelX |-> Fin(pPadding),
      maxVisiblePixelX |-> Fin(pPadding + w - 1),
      minVisiblePixelY |-> Fin(pPadding),
      maxVisiblePixelY |-> Fin(pPadding + h - 1)]

\* C11: for an image with a visible pixel, getCropBounds on the buffer of
\* its padded crop returns minX = minY = padding, maxX = padding + w - 1 and
\* maxY = padding + h - 1, and these are the cropBounds stored on the crop.
C11_RedetectedBoundsExact ==
  (pc \in {"redetected", "recropped", "recroppedAgain"}
   /\ HarnessVisible # {}) =>
    /\ pRebounds = HarnessPaddedBounds
    /\ pResult.file.cropBounds = pRebounds

\* Bounds were detected again on a padded crop that cut the first column
\* off a two-column image.
C11_Witness ==
  /\ pc = "redetected"
  /\ pPadding >= 1
  /\ pImageData.width = 2
  /\ pBounds.minVisiblePixelX = Fin(1)
  /\ pRebounds.minVisiblePixelX = Fin(pPadding)

\* C13: for an image without a visible pixel, an image of no width or no
\* height included, getCropBounds returns minX = +infinity, maxX =
\* -infinity, minY = +infinity, maxY = -infinity; for an image with a
\* visible pixel it returns four finite numbers, so never that.
C13_NoVisiblePixelBounds ==
  pc \notin {"idle", "decoded"} =>
    /\ HarnessVisible = {} =>
         /\ pBounds.minVisiblePixelX = Infinity
         /\ pBounds.maxVisiblePixelX = NegInfinity
         /\ pBounds.minVisiblePixelY = Infinity
         /\ pBounds.maxVisiblePixelY = NegInfinity
    /\ HarnessVisible # {} =>
         \A f \in DOMAIN pBounds : pBounds[f] \notin {Infinity, NegInfinity}

\* Bounds were detected on an image of no width and some height.
C13_Witness ==
  /\ pc = "detected"
  /\ pImageData.width = 0
  /\ pImageData.height >= 1
  /\ pBounds.maxVisiblePixelY = NegInfinity

\* C17: for an image with a visible pixel and a padding, the padded crop
\* cropped again with padding 0 by its stored bounds has the unpadded width
\* and height and the pixels of the image's crop with padding 0, that is
\* the pixels of the image's bounded rectangle; cropped once more with
\* padding 0 it comes back unchanged, bounds included.
C17_RecropIdempotent ==
  (pc \in {"recropped", "recroppedAgain"} /\ HarnessVisible # {}) =>
    LET minX == pBounds.minVisiblePixelX.n
        minY == pBounds.minVisiblePixelY.n
        w == pBounds.maxVisiblePixelX.n - minX + 1
        h == pBounds.maxVisiblePixelY.n - minY + 1
    IN /\ ~pRecrop.threw
       /\ pRecrop.file.width = w
       /\ pRecrop.file.height = h
       /\ Len(pRecrop.file.data) = w * h * 4
       /\ \A X \in 0..(w - 1), Y \in 0..(h - 1), c \in 1..4 :
            pRecrop.file.data[(Y * w + X) * 4 + c] =
              pImageData.data[((minY + Y) * pImageData.width + minX + X) * 4 + c]
       /\ pRecrop.file.data = cropImageAndAddPadding(HarnessFile, 0).file.data
       /\ pRecrop.file.cropBounds =
            [minVisiblePixelX |-> Fin(0), maxVisiblePixelX |-> Fin(w - 1),
             minVisiblePixelY |-> Fin(0), maxVisiblePixelY |-> Fin(h - 1)]
       /\ pc = "recroppedAgain" => pRecropAgain = pRecrop

\* A padded crop that cut the first column off its image was cropped twice
\* more with padding 0.
C17_Witness ==
  /\ pc = "recroppedAgain"
  /\ pPadding >= 1
  /\ pBounds.minVisiblePixelX = Fin(1)
  /\ ~pRecropAgain.threw
  /\ pRecropAgain.file.width = 1

(***************************************************************************)
(* Properties of the session (Spec).                                       *)
(***************************************************************************)
\* Lexicographic order of two strings by code unit.
Precedes(a, b) ==
  \E k \in 1..Len(b) :
    /\ \A i \in 1..(k - 1) : i <= Len(a) /\ a[i] = b[i]
    /\ \/ k = Len(a) + 1
       \/ k <= Len(a) /\ CharCode(a[k]) < CharCode(b[k])

\* The entries of the uploaded archive that are no directories, are not
\* hidden and have an image name.
InputImageNames(file) ==
  {e.name : e \in {x \in ArchiveEntries(file) :
     /\ ~x.dir
     /\ LastOf(split(x.name, {"/", "BACKSLASH"}))[1] # "."
     /\ \E ext \in {<< ".", "p", "n", "g" >>, << ".", "j", "p", "g" >>,
                    << ".", "j", "p", "e", "g" >>, << ".", "s", "v", "g" >>} :
          endsWith(toLowerCase(x.name), ext)}}

\* C3: once the newest upload has been applied, uploadedFileName is the
\* name of the newest upload's file, and the images of originalImageFiles
\* and of croppedImageFiles are images of that file.
ClaimC3 ==
  newestApplied =>
    /\ uploadedFileName = newestFile
    /\ \A i \in 1..Len(originalImageFiles) :
         originalImageFiles[i].name \in InputImageNames(newestFile)
    /\ \A i \in 1..Len(croppedImageFiles) :
         croppedImageFiles[i].name \in InputImageNames(newestFile)

\* C5: a crop requested on a batch with an image whose crop fails starts no
\* crop chain, so every chain in flight is over a batch whose crops all
\* succeed; and a published croppedImageFiles has one image per image of the
\* batch it was cropped from, in its order and under its name, each equal to
\* the crop of that image alone.
C5_NoDropNoCorruption ==
  /\ \A c \in 1..Len(crops) : \A k \in 1..Len(crops[c].source) :
       ~cropImageAndAddPadding(crops[c].source[k], crops[c].padding).threw
  /\ croppedImageFiles # << >> =>
       /\ Len(croppedImageFiles) = Len(croppedOf.source)
       /\ \A i \in 1..Len(croppedOf.source) :
            LET alone == cropImageAndAddPadding(croppedOf.source[i],
                                                croppedOf.padding)
            IN /\ ~alone.threw
               /\ croppedImageFiles[i] = alone.file
               /\ croppedImageFiles[i].name = croppedOf.source[i].name

\* The crop button was clicked on a batch of two images, one of which is
\* fully transparent and one of which is not: the click threw and nothing
\* is published.
C5_Witness ==
  /\ lastOutput = ExceptionOutput
  /\ Len(originalImageFiles) = 2
  /\ \E i, j \in 1..2 :
       /\ originalImageFiles[i].cropBounds = EmptyBounds
       /\ originalImageFiles[j].cropBounds # EmptyBounds
  /\ croppedImageFiles = << >>
  /\ crops = << >>

\* C6: originalImageFiles holds the image entries of the uploaded archive,
\* each once, in lexicographic order of their names; croppedImageFiles and
\* the entries of a packaged archive are in that order too.
C6_OriginalsSortedByName ==
  /\ \A i, j \in 1..Len(originalImageFiles) :
       i < j => Precedes(originalImageFiles[i].name, originalImageFiles[j].name)
  /\ {originalImageFiles[i].name : i \in 1..Len(originalImageFiles)}
       = InputImageNames(uploadedFileName)
  /\ \A i, j \in 1..Len(croppedImageFiles) :
       i < j => Precedes(croppedImageFiles[i].name, croppedImageFiles[j].name)
  /\ lastOutput.kind = "zip" =>
       \A i, j \in 1..Len(lastOutput.entries) :
         i < j => Precedes(lastOutput.entries[i], lastOutput.entries[j])

\* An upload of an archive whose two image entries differ in the case of
\* their first letter has been applied and packaged.
C6_Witness ==
  /\ uploadedFileName = NameBZip
  /\ Len(originalImageFiles) = 2
  /\ originalImageFiles[1].name = << "A", ".", "P", "N", "G" >>
  /\ lastOutput.kind = "zip"
  /\ Len(lastOutput.entries) = 2

\* C7: once a bare image file has been chosen, the session loads it or holds
\* it as its one original image, and what it packages for it is a single
\* image named after the upload with .cropped.<ext> for its extension.
ClaimC7 ==
  /\ (lastOutput.kind = "chosen" /\ ~isZipFileName(lastOutput.name)
      /\ isImageFileName(lastOutput.name)) =>
       \/ \E i \in 1..Len(uploads) : uploads[i].file = lastOutput.name
       \/ uploadedFileName = lastOutput.name /\ Len(originalImageFiles) = 1
  /\ (lastOutput.kind \in {"image", "zip"} /\ uploadedFileName = NamePhoto) =>
       /\ lastOutput.kind = "image"
       /\ lastOutput.name =
            << "p", ".", "c", "r", "o", "p", "p", "e", "d", ".", "p", "n", "g" >>

\* C8: a download after an archive upload is an archive named after the
\* upload with its trailing .zip replaced by .cropped.zip, whose entries are
\* the image entries of the uploaded archive, each once under its own name.
ClaimC8 ==
  lastOutput.kind \in {"image", "zip"} =>
    /\ lastOutput.kind = "zip"
    /\ lastOutput.name =
         SubSeq(uploadedFileName, 1, Len(uploadedFileName) - 4)
           \o << ".", "c", "r", "o", "p", "p", "e", "d", ".", "z", "i", "p" >>
    /\ Len(lastOutput.entries) = Cardinality(InputImageNames(uploadedFileName))
    /\ {lastOutput.entries[i] : i \in 1..Len(lastOutput.entries)}
         = InputImageNames(uploadedFileName)

\* The step showed a failure: an alert, an unhandled rejection or an
\* uncaught exception.
FailureShown == lastOutput'.kind \in {"alert", "rejection", "exception"}

\* A text of one or more decimal digits.
AllDecimalDigits(s) ==
  /\ Len(s) >= 1
  /\ \A i \in 1..Len(s) :
       s[i] \in {"0", "1", "2", "3", "4", "5", "6", "7", "8", "9"}

\* The step entered a padding text that is not valid.
InvalidPaddingEntered ==
  /\ transparentPaddingInputValue' # transparentPaddingInputValue
  /\ ~AllDecimalDigits(transparentPaddingInputValue')

\* C9 as stated: every failing step, the entry of an invalid padding text
\* included, leaves originalImageFiles, croppedImageFiles and
\* uploadedFileName as they were.
ClaimC9 ==
  [][(FailureShown \/ InvalidPaddingEntered) =>
       UNCHANGED << originalImageFiles, croppedImageFiles,
                    uploadedFileName >>]_vars

\* C9 as amended: a step that shows an alert, an unhandled rejection or an
\* uncaught exception leaves originalImageFiles, croppedImageFiles and
\* uploadedFileName as they were; a step that enters an invalid padding text
\* leaves originalImageFiles and uploadedFileName as they were and empties
\* croppedImageFiles.
C9_FailuresKeepData ==
  [][/\ FailureShown =>
          UNCHANGED << originalImageFiles, croppedImageFiles,
                       uploadedFileName >>
     /\ InvalidPaddingEntered =>
          /\ UNCHANGED << originalImageFiles, uploadedFileName >>
          /\ croppedImageFiles' = << >>]_vars

\* A decode of a later upload was rejected while the session held an
\* applied upload and its cropped batch.
C9_Witness ==
  /\ lastOutput = RejectionOutput
  /\ uploadedFileName # << >>
  /\ originalImageFiles # << >>
  /\ croppedImageFiles # << >>

\* C10: isValidNonNegativeInteger accepts the padding text exactly when it
\* is one or more decimal digits, and while the text is not, no step starts
\* a crop: no crop chain is added and no crop throws.
C10_InvalidPaddingBlocksCrop ==
  [][/\ isValidNonNegativeInteger(transparentPaddingInputValue)
          <=> AllDecimalDigits(transparentPaddingInputValue)
     /\ ~AllDecimalDigits(transparentPaddingInputValue) =>
          /\ Len(crops') <= Len(crops)
          /\ lastOutput'.kind # "exception"]_vars

\* The session holds originals and no cropped batch, no crop is in flight,
\* and the padding text starts with a digit but is not valid.
C10_Witness ==
  /\ transparentPaddingInputValue = << "1", "x" >>
  /\ originalImageFiles # << >>
  /\ croppedImageFiles = << >>
  /\ crops = << >>

\* C14: a published croppedImageFiles has the length of the batch it was
\* cropped from, and its element i carries the name of element i of the
\* batch, has the size of that element's own bounds plus the padding, and
\* the pixels of that element's crop, whichever crop completed last.
C14_BatchKeepsInputOrder ==
  croppedImageFiles # << >> =>
    /\ Len(croppedImageFiles) = Len(croppedOf.source)
    /\ \A i \in 1..Len(croppedImageFiles) :
         LET from == croppedOf.source[i]
             b == from.cropBounds
             out == croppedImageFiles[i]
         IN /\ out.name = from.name
            /\ out.width = b.maxVisiblePixelX.n - b.minVisiblePixelX.n + 1
                             + 2 * croppedOf.padding
            /\ out.height = b.maxVisiblePixelY.n - b.minVisiblePixelY.n + 1
                              + 2 * croppedOf.padding
            /\ out.data =
                 cropImageAndAddPadding(from, croppedOf.padding).file.data

\* A batch of two differently sized images was published with padding,
\* the crop of its first image having completed after that of its second.
C14_Witness ==
  /\ Len(croppedImageFiles) = 2
  /\ croppedOf.lastDone = 1
  /\ croppedOf.padding >= 1
  /\ croppedImageFiles[1].name # croppedImageFiles[2].name

\* C18: a non-empty croppedImageFiles is the crop of the current
\* originalImageFiles with the padding the current padding text parses to:
\* the text is valid, the two batches have the same length, and each
\* cropped image is the crop of the original at its index with that padding.
ClaimC18 ==
  croppedImageFiles # << >> =>
    /\ AllDecimalDigits(transparentPaddingInputValue)
    /\ Len(croppedImageFiles) = Len(originalImageFiles)
    /\ \A i \in 1..Len(originalImageFiles) :
         LET now == cropImageAndAddPadding(
                      originalImageFiles[i],
                      parseInt(transparentPaddingInputValue))
         IN /\ ~now.threw
            /\ croppedImageFiles[i] = now.file

(***************************************************************************)
(* Properties of the name functions (NamesSpec).                           *)
(***************************************************************************)
\* The positions of the "." characters of a name.
DotsOf(name) == {i \in 1..Len(name) : name[i] = "."}

\* A character with a capital letter replaced by its small letter.
Lowered(c) ==
  LET upper ==
        << "A", "B", "C", "D", "E", "F", "G", "H", "I", "J", "K", "L", "M",
           "N", "O", "P", "Q", "R", "S", "T", "U", "V", "W", "X", "Y", "Z" >>
      lower ==
        << "a", "b", "c", "d", "e", "f", "g", "h", "i", "j", "k", "l", "m",
           "n", "o", "p", "q", "r", "s", "t", "u", "v", "w", "x", "y", "z" >>
  IN IF \E i \in 1..26 : upper[i] = c
     THEN lower[CHOOSE i \in 1..26 : upper[i] = c]
     ELSE c

\* C12: getDotlessExtension returns the lower-cased text after the last "."
\* of the name, and the empty string when the name has no ".".
ClaimC12 ==
  pClass.classified =>
    pClass.extension =
      IF DotsOf(pName) = {} THEN << >>
      ELSE LET last == CHOOSE i \in DotsOf(pName) :
                         \A j \in DotsOf(pName) : j <= i
           IN [i \in 1..(Len(pName) - last) |-> Lowered(pName[last + i])]

\* The lower-cased name.
LoweredName(name) == [i \in 1..Len(name) |-> Lowered(name[i])]

\* The lower-cased text after the last "/" or backslash of a name.
LastSegment(name) ==
  LET seps == {i \in 1..Len(name) : name[i] \in {"/", "BACKSLASH"}}
      start == IF seps = {} THEN 0
               ELSE CHOOSE i \in seps : \A j \in seps : j <= i
  IN [i \in 1..(Len(name) - start) |-> Lowered(name[start + i])]

\* The last segment is empty or starts with ".".
HiddenOrEmpty(name) ==
  LastSegment(name) = << >> \/ LastSegment(name)[1] = "."

\* The lower-cased name ends with the suffix.
HasSuffix(name, suffix) ==
  /\ Len(name) >= Len(suffix)
  /\ \A i \in 1..Len(suffix) :
       Lowered(name[Len(name) - Len(suffix) + i]) = suffix[i]

\* C15: isZipFileName is false for a name whose last path segment is empty
\* or starts with ".", and otherwise true exactly when the lower-cased name
\* ends with ".zip"; it is false for ".hidden.zip" and for
\* "folder/.hidden.zip" and true for "a.ZIP".
C15_ZipNames ==
  pClass.classified =>
    /\ pClass.zip = (~HiddenOrEmpty(pName)
                     /\ HasSuffix(pName, << ".", "z", "i", "p" >>))
    /\ pName \in {NameHidden, NameFolderHidden} => ~pClass.zip
    /\ pName = NameUpperZip => pClass.zip

\* The hidden archive in a folder was classified, and is no archive name.
C15_Witness ==
  /\ pClass.classified
  /\ pName = NameFolderHidden
  /\ ~pClass.zip

\* C16: isImageFileName is false for a name whose last path segment is
\* empty or starts with ".", and otherwise true exactly when the lower-cased
\* name ends with .png, .jpg, .jpeg or .svg; it is true for "a.b.PNG" and
\* false for "noext"; and no name is both an image name and an archive name.
C16_ImageNames ==
  pClass.classified =>
    /\ pClass.image =
         (~HiddenOrEmpty(pName)
          /\ \E suffix \in {<< ".", "p", "n", "g" >>, << ".", "j", "p", "g" >>,
                            << ".", "j", "p", "e", "g" >>,
                            << ".", "s", "v", "g" >>} :
               HasSuffix(pName, suffix))
    /\ pName = NameTwoDots => pClass.image
    /\ pName = NameNoExt => ~pClass.image
    /\ ~(pClass.image /\ pClass.zip)

\* The name with two dots and its extension in capitals was classified:
\* it is an image name and no archive name.
C16_Witness ==
  /\ pClass.classified
  /\ pName = NameTwoDots
  /\ pClass.image
  /\ ~pClass.zip

=============================================================================
